---------------------------- MODULE Spec2Model ----------------------------
(***************************************************************************)
(* PhonePe statement analyzer (src/app.py): the line classifier and field  *)
(* extractor of parse_phonepe_pdf, categorize_transactions, the learning   *)
(* loop of main() and the SQLite name_category_map table.                  *)
(*                                                                         *)
(* Text is a sequence of one-character strings, so that lower(), strip(),  *)
(* split(), the `in` substring test and the regular expressions are        *)
(* computed character by character.                                        *)
(***************************************************************************)
EXTENDS Integers, Sequences, FiniteSets, TLC

(* ------------------------------ text ---------------------------------- *)

UpperChars == <<"A","B","C","D","E","F","G","H","I","J","K","L","M",
                "N","O","P","Q","R","S","T","U","V","W","X","Y","Z">>

LowerChars == <<"a","b","c","d","e","f","g","h","i","j","k","l","m",
                "n","o","p","q","r","s","t","u","v","w","x","y","z">>

Digits == {"0","1","2","3","4","5","6","7","8","9"}

Whitespace == {" ", "\t"}

\* the lowercase letter of every uppercase letter
ToLower == [c \in {UpperChars[k] : k \in 1..26} |->
              LowerChars[CHOOSE k \in 1..26 : UpperChars[k] = c]]

Letters == {UpperChars[k] : k \in 1..26} \cup {LowerChars[k] : k \in 1..26}

LowerChar(c) == IF c \in DOMAIN ToLower THEN ToLower[c] ELSE c

\* str.lower()
Lower(s) == [k \in 1..Len(s) |-> LowerChar(s[k])]

\* str.strip(): drop leading and trailing whitespace
Strip(s) ==
  LET nonws == {k \in 1..Len(s) : s[k] \notin Whitespace}
  IN  IF nonws = {} THEN <<>>
      ELSE LET lo == CHOOSE k \in nonws : \A j \in nonws : k <= j
               hi == CHOOSE k \in nonws : \A j \in nonws : j <= k
           IN  SubSeq(s, lo, hi)

\* str.split(): maximal runs of non-whitespace characters, left to right
RECURSIVE SplitFrom(_, _, _)
SplitFrom(s, k, word) ==
  IF k > Len(s)
  THEN IF word = <<>> THEN <<>> ELSE <<word>>
  ELSE IF s[k] \in Whitespace
       THEN IF word = <<>> THEN SplitFrom(s, k + 1, <<>>)
            ELSE <<word>> \o SplitFrom(s, k + 1, <<>>)
       ELSE SplitFrom(s, k + 1, Append(word, s[k]))

Split(s) == SplitFrom(s, 1, <<>>)

\* does text t occur in s starting at position p
OccursAt(t, s, p) ==
  /\ p >= 1
  /\ p + Len(t) - 1 <= Len(s)
  /\ SubSeq(s, p, p + Len(t) - 1) = t

\* Python's `t in s` on strings
Contains(t, s) == \E p \in 1..(Len(s) - Len(t) + 1) : OccursAt(t, s, p)

\* membership of a value in a Python list
InList(x, list) == \E k \in 1..Len(list) : list[k] = x

(* ------------------------- category defaults -------------------------- *)

\* the module-level dict: category -> reference to its keyword list object
default_keywords ==
  << [cat |-> <<"F","o","o","d">>, ref |-> 1],
     [cat |-> <<"G","r","o","c","e","r","i","e","s">>, ref |-> 2],
     [cat |-> <<"R","e","c","h","a","r","g","e","/","B","i","l","l">>, ref |-> 3],
     [cat |-> <<"S","h","o","p","p","i","n","g">>, ref |-> 4],
     [cat |-> <<"E","n","t","e","r","t","a","i","n","m","e","n","t">>, ref |-> 5],
     [cat |-> <<"T","r","a","n","s","p","o","r","t">>, ref |-> 6],
     [cat |-> <<"E","d","u","c","a","t","i","o","n">>, ref |-> 7],
     [cat |-> <<"H","e","a","l","t","h">>, ref |-> 8],
     [cat |-> <<"O","t","h","e","r">>, ref |-> 9] >>

DefaultLists ==
  << << <<"z","o","m","a","t","o">>,
        <<"s","w","i","g","g","y">>,
        <<"r","e","s","t","a","u","r","a","n","t">>,
        <<"p","i","z","z","a">> >>,
     << <<"d","-","m","a","r","t">>,
        <<"b","i","g"," ","b","a","z","a","a","r">>,
        <<"g","r","o","c","e","r","y">> >>,
     << <<"r","e","c","h","a","r","g","e">>,
        <<"e","l","e","c","t","r","i","c","i","t","y">>,
        <<"m","o","b","i","l","e">>,
        <<"w","a","t","e","r">> >>,
     << <<"a","m","a","z","o","n">>,
        <<"f","l","i","p","k","a","r","t">>,
        <<"m","y","n","t","r","a">> >>,
     << <<"n","e","t","f","l","i","x">>,
        <<"h","o","t","s","t","a","r">>,
        <<"s","p","o","t","i","f","y">> >>,
     << <<"u","b","e","r">>,
        <<"o","l","a">>,
        <<"f","u","e","l">>,
        <<"m","e","t","r","o">> >>,
     << <<"i","n","s","t","i","t","u","t","e">>,
        <<"c","o","l","l","e","g","e">>,
        <<"f","e","e","s">> >>,
     << <<"p","h","a","r","m","a","c","y">>,
        <<"h","o","s","p","i","t","a","l">>,
        <<"c","l","i","n","i","c">> >>,
     <<  >> >>

(* ------------------------------ bounds -------------------------------- *)

\* Learn steps (corrected rows) over a whole behaviour
MaxLearns == 2

(* ------------------------------ inputs -------------------------------- *)

\* browser sessions of the one server process
Sessions == {"s1", "s2"}

Debit == <<"D","e","b","i","t">>

Credit == <<"C","r","e","d","i","t">>

Other == <<"O","t","h","e","r">>

\* the uploaded statements, as the rows read from them (Name, Debit/Credit)
Files ==
  { << [Name |-> <<"J","o"," ","D","o">>, DC |-> Debit],
       [Name |-> <<"O","l","a">>, DC |-> Credit],
       [Name |-> <<"D","o"," ","J","o">>, DC |-> Debit] >>,
    << [Name |-> <<" ","O","l","a">>, DC |-> Debit] >>,
    << >> }

\* what the user may type into a Category cell of the editor
EditCats ==
  { <<"R","e","n","t">>, <<"F","o","o","d">>, <<" ">>, << >> }

(* ------------------------------- state -------------------------------- *)

VARIABLES
  db,          \* rows (name, category) of table name_category_map
  heap,        \* the keyword list objects, by reference
  ss,          \* st.session_state of every session: key -> value
  pc,          \* position of the running script: idle, learn, recat, done,
               \* raised (an uncaught exception is leaving main)
  cur,         \* the session whose script run is in progress
  debits_df,   \* Name column of debits_df
  df,          \* Category column of df
  edited_df,   \* rows (Name, Category) of edited_df
  i,           \* loop index of the learning loop (1-based)
  changed,     \* the flag `changed`
  old_df,      \* history: Category column of df at the start of the loop
  edits,       \* history: the table returned by st.data_editor
  saves,       \* history: completed save_name_category_map calls of this run
  learns,      \* history: Learn steps so far
  line,        \* parse_phonepe_pdf: the line of page text at hand
  ppc,         \* parse_phonepe_pdf: position (classify, extract, done)
  transactions,\* parse_phonepe_pdf: the list `transactions`
  parsed_rows  \* parse_phonepe_pdf: the list `parsed_rows`

vars ==
  << db, heap, ss, pc, cur, debits_df, df, edited_df, i, changed,
     old_df, edits, saves, learns,
     line, ppc, transactions, parsed_rows >>

runVars == << debits_df, df, edited_df, i, changed, old_df, edits, saves >>

parseVars == << line, ppc, transactions, parsed_rows >>

(* --------------------------- category store --------------------------- *)

\* INSERT OR IGNORE: a stored name keeps its category
Mut_Upsert(rows, name, category) ==
  IF \E r \in rows : r[1] = name THEN rows ELSE rows \cup {<<name, category>>}

\* one INSERT ... ON CONFLICT(name) DO UPDATE SET category=excluded.category
Upsert(rows, name, category) ==
  IF \E r \in rows : r[1] = name
  THEN {IF r[1] = name THEN <<name, category>> ELSE r : r \in rows}
  ELSE rows \cup {<<name, category>>}

\* save_name_category_map: one upsert per item of the dict, then commit
RECURSIVE SaveItems(_, _, _)
SaveItems(rows, dict, keys) ==
  IF keys = {} THEN rows
  ELSE LET name == CHOOSE k \in keys : TRUE
       IN  SaveItems(Upsert(rows, name, dict[name]), dict, keys \ {name})

save_name_category_map(rows, name_category_dict) ==
  SaveItems(rows, name_category_dict, DOMAIN name_category_dict)

\* load_name_category_map: {name: category for name, category in rows}
load_name_category_map(rows) ==
  [n \in {r[1] : r \in rows} |-> (CHOOSE r \in rows : r[1] = n)[2]]

(* --------------------------- categorization --------------------------- *)

\* any(keyword.lower() in name_lower for keyword in keywords)
AnyKeyword(keywords, name_lower) ==
  \E k \in 1..Len(keywords) : Contains(Lower(keywords[k]), name_lower)

\* the scan without its break: the last matching category wins
RECURSIVE Mut_ScanKeywords(_, _, _, _)
Mut_ScanKeywords(keyword_dict, hp, name_lower, k) ==
  IF k > Len(keyword_dict) THEN Other
  ELSE LET rest == Mut_ScanKeywords(keyword_dict, hp, name_lower, k + 1)
       IN  IF rest = Other /\ AnyKeyword(hp[keyword_dict[k].ref], name_lower)
           THEN keyword_dict[k].cat
           ELSE rest

\* the loop over keyword_dict.items(), in insertion order, with its break
RECURSIVE ScanKeywords(_, _, _, _)
ScanKeywords(keyword_dict, hp, name_lower, k) ==
  IF k > Len(keyword_dict) THEN Other
  ELSE IF AnyKeyword(hp[keyword_dict[k].ref], name_lower)
       THEN keyword_dict[k].cat
       ELSE ScanKeywords(keyword_dict, hp, name_lower, k + 1)

\* the keyword scan first, the name map only when no keyword matches
Mut_CategorizeName(name, keyword_dict, hp, name_map) ==
  LET name_lower == Strip(Lower(name))
      scanned    == ScanKeywords(keyword_dict, hp, name_lower, 1)
  IN  IF scanned = Other /\ name_lower \in DOMAIN name_map
      THEN name_map[name_lower]
      ELSE scanned

\* the body of the loop over df["Name"]
CategorizeName(name, keyword_dict, hp, name_map) ==
  LET name_lower == Strip(Lower(name))
  IN  IF name_lower \in DOMAIN name_map
      THEN name_map[name_lower]
      ELSE ScanKeywords(keyword_dict, hp, name_lower, 1)

\* categorize_transactions: the Category column for the Name column
categorize_transactions(names, keyword_dict, hp, name_map) ==
  [k \in 1..Len(names) |-> CategorizeName(names[k], keyword_dict, hp, name_map)]

(* ------------------------------ learning ------------------------------ *)

\* `new_cat in st.session_state.keyword_dict`
HasCategory(keyword_dict, cat) ==
  \E k \in 1..Len(keyword_dict) : keyword_dict[k].cat = cat

\* the list object st.session_state.keyword_dict[cat]
RefOf(keyword_dict, cat) ==
  keyword_dict[CHOOSE k \in 1..Len(keyword_dict) : keyword_dict[k].cat = cat].ref

\* the keyword list replaced by the words of the name
Mut_AddWords(list, words, k) == words

\* for word in words: if word not in list: list.append(word)
RECURSIVE AddWords(_, _, _)
AddWords(list, words, k) ==
  IF k > Len(words) THEN list
  ELSE AddWords(IF InList(words[k], list) THEN list ELSE Append(list, words[k]),
                words, k + 1)

\* name_to_category[key] = value
SetItem(dict, key, value) ==
  [k \in DOMAIN dict \cup {key} |-> IF k = key THEN value ELSE dict[k]]

\* the guard without its test for a blank category
Mut_RowChanged(old_cat, new_cat) == new_cat /= old_cat

\* the guard of the learning step for one row
RowChanged(old_cat, new_cat) == new_cat /= old_cat /\ Strip(new_cat) /= << >>

\* the key under which the learning step stores a name
LearnKey(name) == Lower(name)

\* rows of an edited table that the learning loop will learn from
ChangedRows(old, ed) ==
  {k \in 1..Len(ed) : RowChanged(old[k], ed[k].Category)}

(* ------------------------------ actions ------------------------------- *)

NoRun ==
  /\ debits_df = << >> /\ df = << >> /\ edited_df = << >> /\ i = 0
  /\ changed = FALSE /\ old_df = << >> /\ edits = << >> /\ saves = 0

NoParse ==
  /\ line = << >> /\ ppc = "off" /\ transactions = << >> /\ parsed_rows = << >>

FirstSession == CHOOSE s \in Sessions : TRUE

Init ==
  /\ db = {}
  /\ heap = DefaultLists
  /\ ss = [s \in Sessions |-> [k \in {} |-> 0]]
  /\ pc = "idle"
  /\ cur = FirstSession
  /\ learns = 0
  /\ NoRun
  /\ NoParse

\* session_state after lines 205-209
SessionState(state, rows) ==
  [k \in {"name_to_category", "keyword_dict"} |->
     IF k \in DOMAIN state THEN state[k]
     ELSE IF k = "name_to_category" THEN load_name_category_map(rows)
     ELSE default_keywords]

\* df[df["Debit/Credit"] == "Debit"]["Name"]
RECURSIVE DebitNames(_, _)
DebitNames(file, k) ==
  IF k > Len(file) THEN << >>
  ELSE (IF file[k].DC = Debit THEN <<file[k].Name>> ELSE << >>)
       \o DebitNames(file, k + 1)

\* main() fails in init_db or load_name_category_map: nothing is changed
StoreDownAtStart(s) ==
  /\ pc = "idle"
  /\ cur' = s
  /\ pc' = "raised"
  /\ UNCHANGED << db, heap, ss, learns, runVars, parseVars >>

\* main() with an uploaded file that holds no rows: the warning branch
RunEmpty(s, file) ==
  /\ pc = "idle"
  /\ file = << >>
  /\ ss' = [ss EXCEPT ![s] = SessionState(ss[s], db)]
  /\ UNCHANGED << db, heap, pc, cur, learns, runVars, parseVars >>

\* main() up to the learning loop: session state, initial categorization,
\* and the table the editor hands back (its Category cells retyped)
RunStart(s, file) ==
  /\ pc = "idle"
  /\ file /= << >>
  /\ \E state \in {SessionState(ss[s], db)}, names \in {DebitNames(file, 1)} :
       \E cats \in {categorize_transactions(names, state.keyword_dict, heap,
                                            state.name_to_category)} :
         \E typed \in [1..Len(names) ->
                         EditCats \cup {cats[k] : k \in 1..Len(cats)}] :
           LET ed == [k \in 1..Len(names) |->
                        [Name |-> names[k], Category |-> typed[k]]]
           IN  /\ Cardinality(ChangedRows(cats, ed)) <= MaxLearns - learns
               /\ ss' = [ss EXCEPT ![s] = state]
               /\ debits_df' = names
               /\ df' = cats
               /\ old_df' = cats
               /\ edited_df' = ed
               /\ edits' = ed
  /\ cur' = s
  /\ pc' = "learn"
  /\ i' = 1
  /\ changed' = FALSE
  /\ saves' = 0
  /\ UNCHANGED << db, heap, learns, parseVars >>

\* one iteration of the learning loop (lines 247-266)
LearnRow ==
  /\ pc = "learn"
  /\ i <= Len(edited_df)
  /\ LET old_cat == df[i]
         new_cat == edited_df[i].Category
         name    == edited_df[i].Name
         kd      == ss[cur].keyword_dict
         fresh   == ~HasCategory(kd, new_cat)
         kd1     == IF fresh
                    THEN Append(kd, [cat |-> new_cat, ref |-> Len(heap) + 1])
                    ELSE kd
         heap1   == IF fresh THEN Append(heap, << >>) ELSE heap
         ref     == RefOf(kd1, new_cat)
     IN  IF RowChanged(old_cat, new_cat)
         THEN /\ changed' = TRUE
              /\ ss' = [ss EXCEPT ![cur] =
                   [@ EXCEPT !.keyword_dict = kd1,
                             !.name_to_category =
                                SetItem(@, LearnKey(name), new_cat)]]
              /\ heap' = [heap1 EXCEPT ![ref] =
                            AddWords(@, Split(Lower(name)), 1)]
              /\ learns' = learns + 1
         ELSE UNCHANGED << changed, ss, heap, learns >>
  /\ i' = i + 1
  /\ UNCHANGED << db, pc, cur, debits_df, df, edited_df,
                  old_df, edits, saves, parseVars >>

\* the save and what follows indented into the loop body
Mut_LoopDone == pc = "learn" /\ i > 1

LoopDone == pc = "learn" /\ i > Len(edited_df)

ResetRun ==
  /\ debits_df' = << >> /\ df' = << >> /\ edited_df' = << >> /\ i' = 0
  /\ changed' = FALSE /\ old_df' = << >> /\ edits' = << >> /\ saves' = 0
  /\ cur' = FirstSession

\* line 270: save_name_category_map returns
SaveOk ==
  /\ LoopDone
  /\ changed
  /\ db' = save_name_category_map(db, ss[cur].name_to_category)
  /\ saves' = saves + 1
  /\ pc' = "recat"
  /\ UNCHANGED << heap, ss, cur, debits_df, df, edited_df, i, changed,
                  old_df, edits, learns, parseVars >>

\* line 270: the store cannot be written; the exception leaves main()
SaveFails ==
  /\ LoopDone
  /\ changed
  /\ pc' = "raised"
  /\ UNCHANGED << db, heap, ss, cur, learns, runVars, parseVars >>

\* the uncaught exception ends the script run; the error is displayed
Abort ==
  /\ pc = "raised"
  /\ pc' = "idle"
  /\ ResetRun
  /\ UNCHANGED << db, heap, ss, learns, parseVars >>

\* lines 271-272: categorize the whole batch again
Recategorize ==
  /\ pc = "recat"
  /\ df' = categorize_transactions(debits_df, ss[cur].keyword_dict, heap,
                                   ss[cur].name_to_category)
  /\ edited_df' = [k \in 1..Len(debits_df) |->
                     [Name |-> debits_df[k], Category |-> df'[k]]]
  /\ pc' = "done"
  /\ UNCHANGED << db, heap, ss, cur, debits_df, i, changed,
                  old_df, edits, saves, learns, parseVars >>

\* lines 274-320: summary, charts, download; the script run ends
Render ==
  /\ \/ LoopDone /\ ~changed
     \/ pc = "done"
  /\ pc' = "idle"
  /\ ResetRun
  /\ UNCHANGED << db, heap, ss, learns, parseVars >>

Next ==
  \/ \E s \in Sessions : StoreDownAtStart(s)
  \/ \E s \in Sessions, file \in Files : RunEmpty(s, file)
  \/ \E s \in Sessions, file \in Files : RunStart(s, file)
  \/ LearnRow
  \/ SaveOk
  \/ SaveFails
  \/ Abort
  \/ Recategorize
  \/ Render

Spec == Init /\ [][Next]_vars

(* ------------------------- statement parser --------------------------- *)

\* longest line tail (the text after "INR ") that is enumerated
MaxTail == 5

DigitVal == [c \in Digits |->
  CASE c = "0" -> 0 [] c = "1" -> 1 [] c = "2" -> 2 [] c = "3" -> 3
    [] c = "4" -> 4 [] c = "5" -> 5 [] c = "6" -> 6 [] c = "7" -> 7
    [] c = "8" -> 8 [] c = "9" -> 9]

CharAt(s, p) == IF p >= 1 /\ p <= Len(s) THEN s[p] ELSE ""

INR == <<"I","N","R"," ">>

PaidTo == <<"P","a","i","d"," ","t","o">>

ReceivedFrom == <<"R","e","c","e","i","v","e","d"," ","f","r","o","m">>

\* [A-Za-z]{3} \d{2}, \d{4} at the start of the line
DatePrefix(l) ==
  /\ Len(l) >= 12
  /\ \A k \in 1..3 : l[k] \in Letters
  /\ l[4] = " "
  /\ l[5] \in Digits /\ l[6] \in Digits
  /\ l[7] = "," /\ l[8] = " "
  /\ \A k \in 9..12 : l[k] \in Digits

\* " (Debit|Credit) INR \d" at position p
DirectionInrAt(l, p) ==
  /\ CharAt(l, p) = " "
  /\ \/ OccursAt(Debit \o <<" ">> \o INR, l, p + 1)
        /\ CharAt(l, p + 11) \in Digits
     \/ OccursAt(Credit \o <<" ">> \o INR, l, p + 1)
        /\ CharAt(l, p + 12) \in Digits

\* re.match(r'^[A-Za-z]{3} \d{2}, \d{4} .* (Debit|Credit) INR \d', line)
is_transaction_line(l) ==
  /\ DatePrefix(l)
  /\ CharAt(l, 13) = " "
  /\ \E p \in 14..Len(l) : DirectionInrAt(l, p)

MonthNames ==
  << <<"j","a","n">>, <<"f","e","b">>, <<"m","a","r">>, <<"a","p","r">>,
     <<"m","a","y">>, <<"j","u","n">>, <<"j","u","l">>, <<"a","u","g">>,
     <<"s","e","p">>, <<"o","c","t">>, <<"n","o","v">>, <<"d","e","c">> >>

IsLeap(y) == (y % 4 = 0 /\ y % 100 /= 0) \/ y % 400 = 0

DaysIn(y, m) ==
  IF m = 2 THEN (IF IsLeap(y) THEN 29 ELSE 28)
  ELSE IF m \in {4, 6, 9, 11} THEN 30 ELSE 31

\* value of a run of decimal digits
RECURSIVE Number(_)
Number(ds) ==
  IF ds = << >> THEN 0
  ELSE 10 * Number(SubSeq(ds, 1, Len(ds) - 1)) + DigitVal[ds[Len(ds)]]

\* datetime.strptime(date_str, "%b %d, %Y") raises no ValueError
DateOk(l) ==
  LET mon == Lower(SubSeq(l, 1, 3))
      d   == Number(SubSeq(l, 5, 6))
      y   == Number(SubSeq(l, 9, 12))
  IN  /\ \E m \in 1..12 : MonthNames[m] = mon
      /\ y >= 1
      /\ d >= 1
      /\ d <= DaysIn(y, CHOOSE m \in 1..12 : MonthNames[m] = mon)

\* datetime.strptime(date_str, "%b %d, %Y").date()
ParseDate(l) ==
  [year  |-> Number(SubSeq(l, 9, 12)),
   month |-> CHOOSE m \in 1..12 : MonthNames[m] = Lower(SubSeq(l, 1, 3)),
   day   |-> Number(SubSeq(l, 5, 6))]

\* positions at which text t occurs in s
Occurrences(t, s) == {p \in 1..(Len(s) - Len(t) + 1) : OccursAt(t, s, p)}

MinOf(S) == CHOOSE x \in S : \A y \in S : x <= y

\* s.split(t)[0]
BeforeFirst(s, t) ==
  IF Occurrences(t, s) = {} THEN s
  ELSE SubSeq(s, 1, MinOf(Occurrences(t, s)) - 1)

\* s.split(t)[1], for t occurring in s
AfterFirst(s, t) ==
  BeforeFirst(SubSeq(s, MinOf(Occurrences(t, s)) + Len(t), Len(s)), t)

\* lines 96-101
ExtractName(l) ==
  IF Contains(PaidTo, l)
  THEN Strip(BeforeFirst(AfterFirst(l, PaidTo), Debit))
  ELSE IF Contains(ReceivedFrom, l)
       THEN Strip(BeforeFirst(AfterFirst(l, ReceivedFrom), Credit))
       ELSE <<"U","n","k","n","o","w","n">>

\* length of the run of [\d,] characters that starts at position q
RECURSIVE RunLength(_, _)
RunLength(l, q) ==
  IF CharAt(l, q) \in Digits \cup {","} THEN 1 + RunLength(l, q + 1) ELSE 0

\* INR ([\d,]+\.\d{2}) matches at position p (the run is taken greedily)
AmountAt(l, p) ==
  LET n == RunLength(l, p + 4)
  IN  /\ OccursAt(INR, l, p)
      /\ n >= 1
      /\ CharAt(l, p + 4 + n) = "."
      /\ CharAt(l, p + 5 + n) \in Digits
      /\ CharAt(l, p + 6 + n) \in Digits

\* drop the "," of a digit group
RECURSIVE DropCommas(_)
DropCommas(g) ==
  IF g = << >> THEN << >>
  ELSE (IF g[1] = "," THEN << >> ELSE <<g[1]>>) \o DropCommas(Tail(g))

\* float(group.replace(",", "")), in hundredths
AmountValue(l, p) ==
  LET n == RunLength(l, p + 4)
  IN  100 * Number(DropCommas(SubSeq(l, p + 4, p + 3 + n)))
      + Number(SubSeq(l, p + 5 + n, p + 6 + n))

\* the amount pattern without "," in the digit group: INR (\d+\.\d{2})
Mut_ExtractAmount(l) ==
  LET hits == {p \in 1..Len(l) :
                 AmountAt(l, p) /\ ~InList(",", SubSeq(l, p + 4, p + 3 + RunLength(l, p + 4)))}
  IN  IF hits = {} THEN 0 ELSE AmountValue(l, MinOf(hits))

\* lines 107-108: re.search takes the leftmost match; no match gives 0.0
ExtractAmount(l) ==
  LET hits == {p \in 1..Len(l) : AmountAt(l, p)}
  IN  IF hits = {} THEN 0 ELSE AmountValue(l, MinOf(hits))

\* the body of the try block for one line whose date parses
ParseLine(l) ==
  [Date |-> ParseDate(l),
   Name |-> ExtractName(l),
   DC |-> IF Contains(Debit, l) THEN Debit ELSE Credit,
   Amount |-> ExtractAmount(l)]

\* all texts over an alphabet up to a length
RECURSIVE Texts(_, _)
Texts(alphabet, n) ==
  IF n = 0 THEN {<< >>}
  ELSE LET shorter == Texts(alphabet, n - 1)
       IN  shorter \cup {Append(t, c) : t \in shorter, c \in alphabet}

\* the lines of page text that are tried
Lines ==
  { date \o who \o dir \o INR \o tail :
      date \in { <<"J","a","n"," ","0","5",","," ","2","0","2","4">>,
                 <<"F","e","b"," ","3","0",","," ","2","0","2","4">>,
                 <<"J","a","1"," ","0","5",","," ","2","0","2","4">> },
      who  \in { <<" ","P","a","i","d"," ","t","o"," ","O","l","a"," ">>,
                 <<" ">> },
      dir  \in { <<"D","e","b","i","t"," ">>, <<"C","r","e","d","i","t"," ">>,
                 <<"D","e","b","i","t">> },
      tail \in Texts({"1", ",", ".", " "}, MaxTail) }

InitParse ==
  /\ db = {}
  /\ heap = DefaultLists
  /\ ss = [s \in Sessions |-> [k \in {} |-> 0]]
  /\ pc = "idle"
  /\ cur = FirstSession
  /\ learns = 0
  /\ NoRun
  /\ line \in Lines
  /\ ppc = "classify"
  /\ transactions = << >>
  /\ parsed_rows = << >>

\* lines 83-85 for the line at hand
Classify ==
  /\ ppc = "classify"
  /\ transactions' = IF is_transaction_line(line) THEN <<line>> ELSE << >>
  /\ ppc' = "extract"
  /\ UNCHANGED << db, heap, ss, pc, cur, learns, runVars, line, parsed_rows >>

\* lines 87-119: every accepted line is parsed, or dropped when it raises
Extract ==
  /\ ppc = "extract"
  /\ parsed_rows' =
       IF transactions = << >> \/ ~DateOk(transactions[1])
       THEN << >>
       ELSE <<ParseLine(transactions[1])>>
  /\ ppc' = "done"
  /\ UNCHANGED << db, heap, ss, pc, cur, learns, runVars, line, transactions >>

NextParse == Classify \/ Extract

SpecParse == InitParse /\ [][NextParse]_vars

\* C7 as claimed: every line the classifier accepts has an amount the
\* extractor's pattern matches, so the default 0.00 is never taken for it.
AmountGroupAt(l, p, n) ==
  /\ OccursAt(INR, l, p)
  /\ \A k \in 1..n : CharAt(l, p + 3 + k) \in Digits \cup {","}
  /\ CharAt(l, p + 4 + n) = "."
  /\ CharAt(l, p + 5 + n) \in Digits
  /\ CharAt(l, p + 6 + n) \in Digits

HasAmount(l) == \E p \in 1..Len(l), n \in 1..Len(l) : AmountGroupAt(l, p, n)

C7_Lockstep ==
  (ppc = "done" /\ transactions /= << >>) => HasAmount(transactions[1])

\* amount, in hundredths, of the digit group of n characters after "INR " at p
GroupAmount(l, p, n) ==
  100 * Number(DropCommas(SubSeq(l, p + 4, p + 3 + n)))
  + 10 * DigitVal[l[p + 5 + n]] + DigitVal[l[p + 6 + n]]

\* the leftmost "INR " that is followed by a digit group, "." and two digits
\* starts at p, and its group has n characters
LeftmostAmount(l, p, n) ==
  /\ AmountGroupAt(l, p, n)
  /\ \A q \in 1..(p - 1), m \in 1..Len(l) : ~AmountGroupAt(l, q, m)

\* C7 as amended: an accepted line holds "INR " and a digit after the
\* direction word, and nothing more; its row has amount 0.00 when no "INR "
\* of the line is followed by a digit group with "." and two digits, and
\* otherwise the amount of the leftmost such group.
C7_AmountOfAcceptedLine ==
  (ppc = "done" /\ parsed_rows /= << >>) =>
    /\ transactions = <<line>>
    /\ \E p \in 1..Len(line) :
         OccursAt(INR, line, p) /\ CharAt(line, p + 4) \in Digits
    /\ ~HasAmount(line) => parsed_rows[1].Amount = 0
    /\ HasAmount(line) =>
         \E p \in 1..Len(line), n \in 1..Len(line) :
           /\ LeftmostAmount(line, p, n)
           /\ parsed_rows[1].Amount = GroupAmount(line, p, n)

\* an accepted line with a parsed date whose amount is the default
C7_Witness ==
  /\ ppc = "done"
  /\ parsed_rows /= << >>
  /\ ~HasAmount(line)
  /\ parsed_rows[1].Amount = 0

(* --------------- categorize_transactions on drawn inputs -------------- *)

Rent == <<"R","e","n","t">>

Gym == <<"G","y","m">>

\* names of the one-row batches that are categorized
CatNames ==
  { <<"O","l","a">>, <<" ","O","l","a"," ">>, <<"D","o"," ","O","l","a">>,
    <<"J","o"," ","D","o">>, <<"J","O">> }

\* name maps: every map from some of these keys to one of these categories
CatKeys == { <<"o","l","a">>, <<"j","o"," ","d","o">>, <<" ","o","l","a"," ">> }

CatMaps ==
  UNION { [keys -> {Rent, Other}] : keys \in SUBSET CatKeys }

\* keywords learned into the default category Food
CatFoodWords == { << >>, << <<"d","o">> >> }

\* learned categories, in creation order, with their keyword lists
CatLearned ==
  { << >>,
    << [cat |-> Rent, words |-> << <<"j","o">>, <<"d","o">> >>] >>,
    << [cat |-> Rent, words |-> << <<"o","l","a">> >>] >>,
    << [cat |-> Rent, words |-> << <<"j","o">> >>],
       [cat |-> Gym, words |-> << <<"o","l","a">> >>] >>,
    << [cat |-> Gym, words |-> << <<"O","L","A">> >>],
       [cat |-> Rent, words |-> << <<"o","l","a">> >>] >> }

InitCat ==
  /\ db = {}
  /\ \E food \in CatFoodWords, learned \in CatLearned, map \in CatMaps :
       /\ heap = [DefaultLists EXCEPT ![1] = @ \o food]
                 \o [k \in 1..Len(learned) |-> learned[k].words]
       /\ ss = [s \in Sessions |->
                 IF s = FirstSession
                 THEN [name_to_category |-> map,
                       keyword_dict |-> default_keywords \o
                          [k \in 1..Len(learned) |->
                             [cat |-> learned[k].cat,
                              ref |-> Len(DefaultLists) + k]]]
                 ELSE [k \in {} |-> 0]]
  /\ pc = "categorize"
  /\ cur = FirstSession
  /\ learns = 0
  /\ \E name \in CatNames : debits_df = <<name>>
  /\ df = << >> /\ edited_df = << >> /\ i = 0
  /\ changed = FALSE /\ old_df = << >> /\ edits = << >> /\ saves = 0
  /\ NoParse

\* line 239: categorize_transactions on the batch
CategorizeBatch ==
  /\ pc = "categorize"
  /\ df' = categorize_transactions(debits_df, ss[cur].keyword_dict, heap,
                                   ss[cur].name_to_category)
  /\ pc' = "categorized"
  /\ UNCHANGED << db, heap, ss, cur, debits_df, edited_df, i, changed,
                  old_df, edits, saves, learns, parseVars >>

NextCat == CategorizeBatch

SpecCat == InitCat /\ [][NextCat]_vars

\* lowercased and trimmed
Normalize(name) == Strip(Lower(name))

\* categories of a ruleset that have a keyword occurring in a normalized name
Matching(keyword_dict, hp, name_lower) ==
  {k \in 1..Len(keyword_dict) :
     \E j \in 1..Len(hp[keyword_dict[k].ref]) :
        Contains(Lower(hp[keyword_dict[k].ref][j]), name_lower)}

\* C1: a name whose normalized form is a key of the name map gets exactly
\* the category the map holds for it, whatever keywords occur in the name.
C1_ExactMatchPrecedence ==
  pc = "categorized" =>
    \A k \in 1..Len(debits_df) :
      Normalize(debits_df[k]) \in DOMAIN ss[cur].name_to_category =>
        df[k] = ss[cur].name_to_category[Normalize(debits_df[k])]

\* a mapped name in which a keyword of another category occurs
C1_Witness ==
  /\ pc = "categorized"
  /\ Normalize(debits_df[1]) \in DOMAIN ss[cur].name_to_category
  /\ df[1] = ss[cur].name_to_category[Normalize(debits_df[1])]
  /\ \E k \in Matching(ss[cur].keyword_dict, heap, Normalize(debits_df[1])) :
       ss[cur].keyword_dict[k].cat /= df[1]

(* ------------------------ claims about a session ---------------------- *)

\* df holds the categories just computed from the session's present state
Fresh == (pc = "learn" /\ i = 1) \/ pc = "done"

\* the keywords of a category of a ruleset
WordsOf(keyword_dict, hp, cat) ==
  {hp[RefOf(keyword_dict, cat)][j] :
     j \in 1..Len(hp[RefOf(keyword_dict, cat)])}

\* C4 as a state predicate: an unmapped name gets the first category, in
\* the order of the ruleset, one of whose keywords occurs in it, else Other;
\* and the ruleset starts with the default categories in their order.
C4_Scan ==
  /\ \A s \in Sessions :
       "keyword_dict" \in DOMAIN ss[s] =>
         SubSeq(ss[s].keyword_dict, 1, Len(default_keywords)) = default_keywords
  /\ Fresh =>
       \A k \in 1..Len(debits_df) :
         Normalize(debits_df[k]) \notin DOMAIN ss[cur].name_to_category =>
           LET hits == Matching(ss[cur].keyword_dict, heap,
                                Normalize(debits_df[k]))
           IN  df[k] = IF hits = {} THEN Other
                       ELSE ss[cur].keyword_dict[MinOf(hits)].cat

\* a step keeps the categories of every ruleset in place and adds new ones
\* at the end
C4_Order ==
  \A s \in Sessions :
    "keyword_dict" \in DOMAIN ss[s] =>
      /\ "keyword_dict" \in DOMAIN ss'[s]
      /\ Len(ss'[s].keyword_dict) >= Len(ss[s].keyword_dict)
      /\ \A k \in 1..Len(ss[s].keyword_dict) :
           ss'[s].keyword_dict[k].cat = ss[s].keyword_dict[k].cat

\* C4: first-match keyword scan in category creation order (defaults first,
\* then learned categories as created), "Other" when nothing matches.
C4_FirstMatchScan == []C4_Scan /\ [][C4_Order]_vars

\* an unmapped name with keywords of two categories in it
C4_Witness ==
  /\ Fresh
  /\ \E k \in 1..Len(debits_df) :
       /\ Normalize(debits_df[k]) \notin DOMAIN ss[cur].name_to_category
       /\ Cardinality(Matching(ss[cur].keyword_dict, heap,
                               Normalize(debits_df[k]))) >= 2
       /\ df[k] /= ss[cur].keyword_dict[6].cat

\* C3: no step removes a category or a keyword of a category from the
\* ruleset of a session.
C3_Grows ==
  \/ ss' = ss /\ heap' = heap
  \/ \A s \in Sessions :
       "keyword_dict" \in DOMAIN ss[s] =>
         /\ "keyword_dict" \in DOMAIN ss'[s]
         /\ \A k \in 1..Len(ss[s].keyword_dict) :
              LET cat == ss[s].keyword_dict[k].cat
              IN  /\ HasCategory(ss'[s].keyword_dict, cat)
                  /\ WordsOf(ss[s].keyword_dict, heap, cat)
                       \subseteq WordsOf(ss'[s].keyword_dict, heap', cat)

C3_LearningMonotonicity == [][C3_Grows]_vars

\* a Learn step has added keywords to a category that had some
C3_Witness ==
  /\ pc = "learn"
  /\ changed
  /\ \E k \in 1..Len(default_keywords) :
       /\ heap[k] /= DefaultLists[k]
       /\ DefaultLists[k] /= << >>

\* a Category cell that is empty or whitespace only
Blank(cat) == \A k \in 1..Len(cat) : cat[k] \in Whitespace

\* the loop is at a row whose new category is blank
AtBlankRow ==
  pc = "learn" /\ i <= Len(edited_df) /\ Blank(edited_df[i].Category)

\* C5: a row whose new category is empty or whitespace only is skipped:
\* rulesets, name maps and the store stay as they are, the row does not set
\* `changed` (so it alone leads to no save and no recategorization), and the
\* loop goes on to the next row.
C5_BlankIgnored ==
  [][AtBlankRow =>
       /\ ss' = ss /\ heap' = heap /\ db' = db
       /\ changed' = changed /\ saves' = saves
       /\ pc' = "learn" /\ i' = i + 1]_vars

\* a pass over an empty and a whitespace-only cell has ended without a change
C5_Witness ==
  /\ LoopDone
  /\ \E j, k \in 1..Len(edits) :
       /\ edits[j].Category = << >> /\ old_df[j] /= << >>
       /\ edits[k].Category = <<" ">>
  /\ ~changed
  /\ saves = 0

\* the names stored in the table
StoredNames(rows) == {r[1] : r \in rows}

\* the step is save_name_category_map returning
SaveStep == pc = "learn" /\ pc' = "recat"

\* C6: a save stores every entry of the given map, leaves every row under
\* another name as it is, and deletes nothing; no step removes a stored name,
\* and a name is stored with one category only.
C6_Step ==
  /\ StoredNames(db) \subseteq StoredNames(db')
  /\ \A r1 \in db', r2 \in db' : r1[1] = r2[1] => r1 = r2
  /\ SaveStep =>
       /\ \A n \in DOMAIN ss[cur].name_to_category :
            <<n, ss[cur].name_to_category[n]>> \in db'
       /\ \A r \in db : r[1] \notin DOMAIN ss[cur].name_to_category => r \in db'

C6_SaveIsUpsert == [][C6_Step]_vars

\* a save has stored the entries of the map and left a row under another
\* name alone
C6_Witness ==
  /\ pc = "recat"
  /\ \E r \in db : r[1] \notin DOMAIN ss[cur].name_to_category
  /\ \E r \in db : r[1] \in DOMAIN ss[cur].name_to_category

\* the category the present state of the running session gives a name
Expected(name) ==
  IF Normalize(name) \in DOMAIN ss[cur].name_to_category
  THEN ss[cur].name_to_category[Normalize(name)]
  ELSE LET hits == Matching(ss[cur].keyword_dict, heap, Normalize(name))
       IN  IF hits = {} THEN Other
           ELSE ss[cur].keyword_dict[MinOf(hits)].cat

\* C8: in a pass with a changed row the save comes after the last Learn
\* step, happens once and stores every entry of the name map; only then is
\* every row of the batch categorized again, from the updated state.
C8_Step ==
  /\ (pc = "learn" /\ pc' = "learn") => (saves' = 0 /\ db' = db)
  /\ pc' = "recat" =>
       /\ pc = "learn" /\ i > Len(edited_df)
       /\ ChangedRows(old_df, edits) /= {}
       /\ saves = 0 /\ saves' = 1
       /\ \A n \in DOMAIN ss[cur].name_to_category :
            <<n, ss[cur].name_to_category[n]>> \in db'
       /\ \A k \in ChangedRows(old_df, edits) :
            \E r \in db' : r[1] = Lower(edits[k].Name)
  /\ (pc' = "done" /\ pc /= "done") =>
       /\ pc = "recat" /\ saves = 1 /\ saves' = 1
       /\ ss' = ss /\ heap' = heap /\ db' = db
       /\ Len(df') = Len(debits_df)
       /\ \A k \in 1..Len(debits_df) : df'[k] = Expected(debits_df[k])
  /\ (pc = "learn" /\ pc' = "idle") => ChangedRows(old_df, edits) = {}

C8_PersistThenRecategorize == [][C8_Step]_vars

\* a row the user left alone has a new category after the pass
C8_Witness ==
  /\ pc = "done"
  /\ saves = 1
  /\ \E k \in 1..Len(debits_df) :
       /\ k \notin ChangedRows(old_df, edits)
       /\ df[k] /= old_df[k]

\* C2: at the end of a pass, for every row corrected to c (and not followed
\* by a correction of the same normalized name): the name map holds c under
\* the normalized name, the keywords of c hold every word of the normalized
\* name, and every row with that normalized name is categorized c.
C2_LearningTakesEffect ==
  pc = "done" =>
    \A k \in ChangedRows(old_df, edits) :
      LET n == Normalize(edits[k].Name)
          c == edits[k].Category
      IN  (\A j \in ChangedRows(old_df, edits) :
             j > k => Normalize(edits[j].Name) /= n)
          =>
          /\ n \in DOMAIN ss[cur].name_to_category
          /\ ss[cur].name_to_category[n] = c
          /\ \A w \in 1..Len(Split(n)) :
               Split(n)[w] \in WordsOf(ss[cur].keyword_dict, heap, c)
          /\ \A r \in 1..Len(debits_df) :
               Normalize(debits_df[r]) = n => df[r] = c

\* C9: at the start of a categorization pass no row is categorized from a
\* name-map entry that is absent from the store.
C9_NoUnpersistedUse ==
  (pc = "learn" /\ i = 1) =>
    \A k \in 1..Len(debits_df) :
      Normalize(debits_df[k]) \in DOMAIN ss[cur].name_to_category =>
        Normalize(debits_df[k]) \in StoredNames(db)

\* the ruleset of a session, by value
RulesOf(s) ==
  [k \in 1..Len(ss[s].keyword_dict) |->
     [cat |-> ss[s].keyword_dict[k].cat,
      words |-> heap[ss[s].keyword_dict[k].ref]]]

\* the module-level table, by value
DefaultRules ==
  [k \in 1..Len(default_keywords) |->
     [cat |-> default_keywords[k].cat, words |-> heap[default_keywords[k].ref]]]

FixedDefaultRules ==
  [k \in 1..Len(default_keywords) |->
     [cat |-> default_keywords[k].cat, words |-> DefaultLists[k]]]

\* a Learn step leaves the module-level table and the other sessions' rulesets
\* as they are, and a session is seeded with the fixed default table
C10_Step ==
  /\ DefaultRules' = DefaultRules
  /\ \A s \in Sessions :
       /\ ("keyword_dict" \in DOMAIN ss[s] /\ s /= cur) => RulesOf(s)' = RulesOf(s)
       /\ ("keyword_dict" \notin DOMAIN ss[s] /\ "keyword_dict" \in DOMAIN ss'[s])
            => RulesOf(s)' = FixedDefaultRules

=============================================================================
